---------------------------- MODULE Spec2Model ----------------------------
(***************************************************************************)
(* Model of crop_france_aws_v1.py: cropping and masking of NetCDF climate  *)
(* grids to continental France.                                            *)
(*                                                                         *)
(*   Spec          process_all_directories driving process_netcdf_file     *)
(*   SpecFile      process_netcdf_file called on arbitrary paths           *)
(*   SpecClassify  get_coordinates_info on bounded datasets                *)
(*   SpecCrop      the latlon crop (ds.sel) on bounded coordinate axes     *)
(*   SpecMask      the masking loop on bounded grids and variables         *)
(***************************************************************************)
EXTENDS Integers, Sequences, FiniteSets, TLC

VARIABLES
    \* ---- file system (shared by the batch and the per-file function)
    fsize,            \* regular files: path |-> size
    fs_dirs,          \* set of paths that are directories
    mask_exists,      \* the reference mask file is present and readable
    \* ---- process_netcdf_file
    input_file, output_dir,
    pc,               \* position inside process_netcdf_file
    bound,            \* local names that have been assigned (mask_ds, ds, ds_masked)
    opened,           \* dataset handles that are open
    err,              \* exception currently propagating, "none" if none
    raised,           \* the first exception raised inside the try body
    written,          \* paths to_netcdf has written to during the call
    everOpened,       \* a dataset was opened during the call
    \* ---- process_all_directories
    bpc, dir_list, nc_files, cur_dir,
    total_files, processed_files, failed_files, total_size_reduction,
    attempted,        \* files handed to process_netcdf_file, in order
    integrity,        \* files for which the integrity check raised
    printed,          \* the final statistics have been printed
    \* ---- get_coordinates_info
    cls_ds,           \* the dataset handed to get_coordinates_info
    cls_out,          \* what it returned or raised
    cls_done,
    \* ---- the latlon crop of process_netcdf_file (lines 87-100)
    crop_lat,         \* latitude axis of the input, in half degrees
    crop_lon,         \* longitude axis of the input, in half degrees
    crop_out,         \* positions kept along each axis by ds.sel
    crop_done,
    \* ---- the masking loop of process_netcdf_file (lines 119-142)
    m_ds,             \* the cropped dataset: grid dimensions, sizes, data variables
    m_mask,           \* mask_interp, the mask aligned to the grid
    m_out,            \* ds_masked after the loop, or the error it raised
    m_done

fsVars    == <<fsize, fs_dirs, mask_exists>>
fileVars  == <<input_file, output_dir, pc, bound, opened, err, raised, written, everOpened>>
batchVars == <<bpc, dir_list, nc_files, cur_dir, total_files, processed_files,
               failed_files, total_size_reduction, attempted, integrity, printed>>
clsVars   == <<cls_ds, cls_out, cls_done>>
cropVars  == <<crop_lat, crop_lon, crop_out, crop_done>>
maskVars  == <<m_ds, m_mask, m_out, m_done>>
pureVars  == <<clsVars, cropVars, maskVars>>
vars      == <<fsVars, fileVars, batchVars, pureVars>>

-----------------------------------------------------------------------------
(* Bounds                                                                  *)
NumDirs   == 1      \* input sub-directories other than 'france'
NumFiles  == 2      \* .nc files per input directory
OrigSize  == 4      \* size of every input file
MaxOut    == 2      \* written files have a size in 1..MaxOut

-----------------------------------------------------------------------------
(* Paths.  A path is the sequence of its components.  A component is the   *)
(* unique decomposition of a file name into a number of leading "france_"  *)
(* prefixes, a stem and an extension; stem 0 is the literal name 'france'. *)
Name(p, s, e) == [pre |-> p, stem |-> s, ext |-> e]
France        == Name(0, 0, "")
DirName(i)    == Name(0, i, "")
NcName(j)     == Name(0, j, "nc")
TxtName       == Name(0, 1, "txt")

\* f"france_{input_file.name}"
FrancePrefixed(n) == [n EXCEPT !.pre = n.pre + 1]

\* Path / name
Join(p, n) == Append(p, n)

\* Path.name
BaseName(p) == p[Len(p)]

\* the path and all its ancestors
Ancestors(p) == { SubSeq(p, 1, k) : k \in 0..Len(p) }

BaseInputDir  == << >>
BaseOutputDir == << France >>

-----------------------------------------------------------------------------
(* process_netcdf_file                                                     *)

\* output_dir / f"france_{input_file.name}"
OutputFile(inp, out) == Join(out, FrancePrefixed(BaseName(inp)))

output_file == OutputFile(input_file, output_dir)

\* an exception raised inside the try body: control goes to the except clause
Raise(e) ==
    /\ err' = e
    /\ raised' = (IF raised = "none" THEN e ELSE raised)
    /\ pc' = "except"

\* lines 67-76: the safety check, before the try statement
CheckPaths ==
    /\ pc = "check"
    /\ IF output_file = input_file
         THEN /\ err' = "PathCollision"
              /\ pc' = "raised"
         ELSE /\ err' = err
              /\ pc' = "open_mask"
    /\ UNCHANGED pureVars
    /\ UNCHANGED <<fsVars, input_file, output_dir, bound, opened, raised,
                   written, everOpened, batchVars>>

\* line 80
OpenMask ==
    /\ pc = "open_mask"
    /\ IF mask_exists
         THEN /\ bound' = bound \cup {"mask_ds"}
              /\ opened' = opened \cup {"mask_ds"}
              /\ everOpened' = TRUE
              /\ pc' = "open_ds"
              /\ UNCHANGED <<err, raised>>
         ELSE /\ Raise("OpenMaskError")
              /\ UNCHANGED <<bound, opened, everOpened>>
    /\ UNCHANGED pureVars
    /\ UNCHANGED <<fsVars, input_file, output_dir, written, batchVars>>

\* line 81: the input may be absent, or present and unreadable
OpenInput ==
    /\ pc = "open_ds"
    /\ \E readable \in BOOLEAN :
         IF input_file \in DOMAIN fsize /\ readable
           THEN /\ bound' = bound \cup {"ds"}
                /\ opened' = opened \cup {"ds"}
                /\ everOpened' = TRUE
                /\ pc' = "classify"
                /\ UNCHANGED <<err, raised>>
           ELSE /\ Raise("OpenInputError")
                /\ UNCHANGED <<bound, opened, everOpened>>
    /\ UNCHANGED pureVars
    /\ UNCHANGED <<fsVars, input_file, output_dir, written, batchVars>>

\* line 84: get_coordinates_info(ds) returns or raises (see SpecClassify)
Classify ==
    /\ pc = "classify"
    /\ \E recognised \in BOOLEAN :
         IF recognised
           THEN pc' = "crop" /\ UNCHANGED <<err, raised>>
           ELSE Raise("ClassificationError")
    /\ UNCHANGED pureVars
    /\ UNCHANGED <<fsVars, input_file, output_dir, bound, opened, written,
                   everOpened, batchVars>>

\* lines 87-124: crop and interpolation of the mask (see SpecGrid)
CropAndInterp ==
    /\ pc = "crop"
    /\ \E ok \in BOOLEAN :
         IF ok
           THEN pc' = "mask" /\ UNCHANGED <<err, raised>>
           ELSE Raise("ProcessingError")
    /\ UNCHANGED pureVars
    /\ UNCHANGED <<fsVars, input_file, output_dir, bound, opened, written,
                   everOpened, batchVars>>

\* lines 127-142: ds_masked is assigned first, then the loop may fail
ApplyMask ==
    /\ pc = "mask"
    /\ bound' = bound \cup {"ds_masked"}
    /\ opened' = opened \cup {"ds_masked"}
    /\ \E ok \in BOOLEAN :
         IF ok
           THEN pc' = "mkdir" /\ UNCHANGED <<err, raised>>
           ELSE Raise("MaskError")
    /\ UNCHANGED pureVars
    /\ UNCHANGED <<fsVars, input_file, output_dir, written, everOpened, batchVars>>

\* Path.mkdir(parents=True, exist_ok=True) succeeds unless the path or one
\* of its ancestors is a regular file
MkdirOk(d) == Ancestors(d) \cap DOMAIN fsize = {}

\* line 145
MakeOutputDir ==
    /\ pc = "mkdir"
    /\ IF MkdirOk(output_dir)
         THEN /\ fs_dirs' = fs_dirs \cup Ancestors(output_dir)
              /\ pc' = "write"
              /\ UNCHANGED <<err, raised>>
         ELSE /\ Raise("MkdirError")
              /\ UNCHANGED fs_dirs
    /\ UNCHANGED pureVars
    /\ UNCHANGED <<fsize, mask_exists, input_file, output_dir, bound, opened,
                   written, everOpened, batchVars>>

\* lines 148-151
WriteOutput ==
    /\ pc = "write"
    /\ \E ok \in BOOLEAN, sz \in 1..MaxOut :
         IF ok /\ output_file \notin fs_dirs
           THEN /\ fsize' = [p \in DOMAIN fsize \cup {output_file} |->
                               IF p = output_file THEN sz ELSE fsize[p]]
                /\ written' = written \cup {output_file}
                /\ pc' = "integrity"
                /\ UNCHANGED <<err, raised>>
           ELSE /\ Raise("WriteError")
                /\ UNCHANGED <<fsize, written>>
    /\ UNCHANGED pureVars
    /\ UNCHANGED <<fs_dirs, mask_exists, input_file, output_dir, bound, opened,
                   everOpened, batchVars>>

\* lines 153-155
IntegrityCheck ==
    /\ pc = "integrity"
    /\ IF input_file \notin DOMAIN fsize
         THEN /\ Raise("IntegrityViolation")
              /\ integrity' = integrity \cup {input_file}
         ELSE /\ pc' = "stats"
              /\ UNCHANGED <<err, raised, integrity>>
    /\ UNCHANGED pureVars
    /\ UNCHANGED <<fsVars, input_file, output_dir, bound, opened, written, everOpened,
                   bpc, dir_list, nc_files, cur_dir, total_files, processed_files,
                   failed_files, total_size_reduction, attempted, printed>>

\* os.path.getsize of both files and the division succeed
SizesReadable(inp, outp) ==
    /\ inp \in DOMAIN fsize
    /\ outp \in DOMAIN fsize
    /\ fsize[inp] # 0

\* ((original_size - final_size) / original_size) * 100, in whole percent
Reduction(inp, outp) == ((fsize[inp] - fsize[outp]) * 100) \div fsize[inp]

\* lines 157-168
SizeStatistics ==
    /\ pc = "stats"
    /\ IF SizesReadable(input_file, output_file)
         THEN pc' = "finally" /\ UNCHANGED <<err, raised>>
         ELSE Raise("StatError")
    /\ UNCHANGED pureVars
    /\ UNCHANGED <<fsVars, input_file, output_dir, bound, opened, written,
                   everOpened, batchVars>>

\* lines 170-176: line 172 reads ds, which is unassigned when an open failed
ExceptClause ==
    /\ pc = "except"
    /\ err' = (IF "ds" \in bound THEN err ELSE "UnboundLocalError")
    /\ pc' = "finally"
    /\ UNCHANGED pureVars
    /\ UNCHANGED <<fsVars, input_file, output_dir, bound, opened, raised,
                   written, everOpened, batchVars>>

\* lines 180-185: ds.close(); ds_masked.close(); mask_ds.close() inside a
\* try whose bare except swallows the NameError of an unassigned local
CloseHandles(b, o) ==
    IF "ds" \notin b THEN o
    ELSE IF "ds_masked" \notin b THEN o \ {"ds"}
    ELSE IF "mask_ds" \notin b THEN o \ {"ds", "ds_masked"}
    ELSE o \ {"ds", "ds_masked", "mask_ds"}

\* lines 178-185
FinallyClause ==
    /\ pc = "finally"
    /\ opened' = CloseHandles(bound, opened)
    /\ pc' = (IF err = "none" THEN "returned" ELSE "raised")
    /\ UNCHANGED pureVars
    /\ UNCHANGED <<fsVars, input_file, output_dir, bound, err, raised,
                   written, everOpened, batchVars>>

\* another process removes the input or the output file while the call is
\* in progress or has just returned (the event line 154 checks for)
EnvRemove ==
    /\ pc \notin {"idle", "raised"}
    /\ \E p \in {input_file, output_file} \cap DOMAIN fsize :
         fsize' = [q \in DOMAIN fsize \ {p} |-> fsize[q]]
    /\ UNCHANGED pureVars
    /\ UNCHANGED <<fs_dirs, mask_exists, fileVars, batchVars>>

process_netcdf_file ==
    \/ CheckPaths
    \/ OpenMask
    \/ OpenInput
    \/ Classify
    \/ CropAndInterp
    \/ ApplyMask
    \/ MakeOutputDir
    \/ WriteOutput
    \/ IntegrityCheck
    \/ SizeStatistics
    \/ ExceptClause
    \/ FinallyClause

-----------------------------------------------------------------------------
(* process_all_directories                                                 *)

\* Path.glob("*"): the entries directly inside directory d
Children(d) ==
    { p \in fs_dirs \cup DOMAIN fsize :
        Len(p) = Len(d) + 1 /\ SubSeq(p, 1, Len(d)) = d }

\* input_dir.glob("*.nc")
NcChildren(d) == { p \in Children(d) : BaseName(p).ext = "nc" }

\* glob yields the entries in an order the file system decides
Orderings(S) ==
    { s \in [1..Cardinality(S) -> S] :
        \A i, j \in 1..Cardinality(S) : i # j => s[i] # s[j] }

\* input_dir.is_dir() and input_dir.name != 'france'
IsInputDir(d) == d \in fs_dirs /\ BaseName(d) # France

\* lines 187-195
OutputDirsOf(base_in, base_out) ==
    UNION { Ancestors(Join(base_out, BaseName(d))) :
              d \in { c \in Children(base_in) : IsInputDir(c) } }

\* lines 201-211: create_output_directory_structure, the counters, and the
\* listing of the base directory that the outer loop walks
CreateStructure ==
    /\ bpc = "start"
    /\ fs_dirs' = fs_dirs \cup OutputDirsOf(BaseInputDir, BaseOutputDir)
    /\ \E order \in Orderings({ p \in fs_dirs' \cup DOMAIN fsize :
                                  Len(p) = 1 }) : dir_list' = order
    /\ total_files' = 0
    /\ processed_files' = 0
    /\ failed_files' = 0
    /\ total_size_reduction' = 0
    /\ bpc' = "dirs"
    /\ UNCHANGED pureVars
    /\ UNCHANGED <<fsize, mask_exists, fileVars, nc_files, cur_dir, attempted,
                   integrity, printed>>

\* lines 211-218: next entry of the base directory
NextDir ==
    /\ bpc = "dirs"
    /\ IF dir_list = << >>
         THEN /\ bpc' = "summary"
              /\ UNCHANGED <<dir_list, nc_files, cur_dir, total_files>>
         ELSE /\ dir_list' = Tail(dir_list)
              /\ IF IsInputDir(Head(dir_list))
                   THEN /\ cur_dir' = Head(dir_list)
                        /\ \E order \in Orderings(NcChildren(Head(dir_list))) :
                             /\ nc_files' = order
                             /\ total_files' = total_files + Len(order)
                        /\ bpc' = "files"
                   ELSE UNCHANGED <<bpc, nc_files, cur_dir, total_files>>
    /\ UNCHANGED pureVars
    /\ UNCHANGED <<fsVars, fileVars, processed_files, failed_files,
                   total_size_reduction, attempted, integrity, printed>>

\* lines 221-224: next file of the directory, call of process_netcdf_file
NextFile ==
    /\ bpc = "files"
    /\ IF nc_files = << >>
         THEN /\ bpc' = "dirs"
              /\ UNCHANGED <<fileVars, nc_files, attempted>>
         ELSE /\ nc_files' = Tail(nc_files)
              /\ attempted' = Append(attempted, Head(nc_files))
              /\ input_file' = Head(nc_files)
              /\ output_dir' = Join(BaseOutputDir, BaseName(cur_dir))
              /\ pc' = "check"
              /\ bound' = {}
              /\ opened' = {}
              /\ err' = "none"
              /\ raised' = "none"
              /\ written' = {}
              /\ everOpened' = FALSE
              /\ bpc' = "call"
    /\ UNCHANGED pureVars
    /\ UNCHANGED <<fsVars, dir_list, cur_dir, total_files, processed_files,
                   failed_files, total_size_reduction, integrity, printed>>

\* lines 225-232, and 234-236 when a getsize or the division raises
AfterReturn ==
    /\ bpc = "call"
    /\ pc = "returned"
    /\ processed_files' = processed_files + 1
    /\ IF SizesReadable(input_file, output_file)
         THEN /\ total_size_reduction' =
                    total_size_reduction + Reduction(input_file, output_file)
              /\ UNCHANGED failed_files
         ELSE /\ failed_files' = failed_files + 1
              /\ UNCHANGED total_size_reduction
    /\ pc' = "idle"
    /\ bpc' = "files"
    /\ UNCHANGED pureVars
    /\ UNCHANGED <<fsVars, input_file, output_dir, bound, opened, err, raised,
                   written, everOpened, dir_list, nc_files, cur_dir, total_files,
                   attempted, integrity, printed>>

\* lines 234-236: any Exception leaving process_netcdf_file
AfterRaise ==
    /\ bpc = "call"
    /\ pc = "raised"
    /\ failed_files' = failed_files + 1
    /\ pc' = "idle"
    /\ bpc' = "files"
    /\ UNCHANGED pureVars
    /\ UNCHANGED <<fsVars, input_file, output_dir, bound, opened, err, raised,
                   written, everOpened, dir_list, nc_files, cur_dir, total_files,
                   processed_files, total_size_reduction, attempted, integrity,
                   printed>>

\* lines 238-245; the average is printed only when a file succeeded
Summary ==
    /\ bpc = "summary"
    /\ printed' = << [total |-> total_files,
                      succeeded |-> processed_files,
                      failed |-> failed_files,
                      avg_reduction |->
                         IF processed_files > 0
                           THEN total_size_reduction \div processed_files
                           ELSE 0] >>
    /\ bpc' = "done"
    /\ UNCHANGED pureVars
    /\ UNCHANGED <<fsVars, fileVars, dir_list, nc_files, cur_dir, total_files,
                   processed_files, failed_files, total_size_reduction,
                   attempted, integrity>>

process_all_directories ==
    \/ CreateStructure
    \/ NextDir
    \/ NextFile
    \/ AfterReturn
    \/ AfterRaise
    \/ Summary

-----------------------------------------------------------------------------
(* Specifications of the batch and of a single call                        *)

IdleClassify ==
    /\ cls_ds = [dims |-> << >>, vars |-> << >>]
    /\ cls_out = [type |-> "pending"]
    /\ cls_done = FALSE

IdleCrop ==
    /\ crop_lat = << >>
    /\ crop_lon = << >>
    /\ crop_out = [lat |-> {}, lon |-> {}]
    /\ crop_done = FALSE

IdleMask ==
    /\ m_ds = [grid |-> << >>, n1 |-> 0, n2 |-> 0, vars |-> << >>]
    /\ m_mask = [shape |-> << >>, at |-> << >>]
    /\ m_out = [status |-> "pending", vars |-> << >>]
    /\ m_done = FALSE

IdlePure == IdleClassify /\ IdleCrop /\ IdleMask

\* process_all_directories is not running
IdleBatch ==
    /\ bpc = "none"
    /\ dir_list = << >>
    /\ nc_files = << >>
    /\ cur_dir = << >>
    /\ total_files = 0
    /\ processed_files = 0
    /\ failed_files = 0
    /\ total_size_reduction = 0
    /\ attempted = << >>
    /\ integrity = {}
    /\ printed = << >>

\* no file system is involved
IdleFs ==
    /\ fsize = << >>
    /\ fs_dirs = {}
    /\ mask_exists = FALSE

InputDirs == { << DirName(i) >> : i \in 1..NumDirs }
NcFilesOf(d) == { Join(d, NcName(j)) : j \in 1..NumFiles }

IdleFile ==
    /\ input_file = << TxtName >>
    /\ output_dir = << >>
    /\ pc = "idle"
    /\ bound = {}
    /\ opened = {}
    /\ err = "none"
    /\ raised = "none"
    /\ written = {}
    /\ everOpened = FALSE

\* the current directory holds a stray regular file, the input directories
\* with some .nc files and one other file, and possibly an older 'france'
Init ==
    /\ \E files \in SUBSET (UNION { NcFilesOf(d) : d \in InputDirs }),
          france \in BOOLEAN :
         /\ fsize = [p \in files \cup {<< TxtName >>}
                             \cup { Join(d, TxtName) : d \in InputDirs }
                        |-> OrigSize]
         /\ fs_dirs = {<< >>} \cup InputDirs
                        \cup (IF france THEN {<< France >>} ELSE {})
    /\ mask_exists \in BOOLEAN
    /\ IdleFile
    /\ bpc = "start"
    /\ dir_list = << >>
    /\ nc_files = << >>
    /\ cur_dir = << >>
    /\ total_files = 0
    /\ processed_files = 0
    /\ failed_files = 0
    /\ total_size_reduction = 0
    /\ attempted = << >>
    /\ integrity = {}
    /\ printed = << >>
    /\ IdlePure

Next ==
    \/ process_all_directories
    \/ process_netcdf_file
    \/ EnvRemove

Spec == Init /\ [][Next]_vars

\* a single call process_netcdf_file(input_file, mask_file, output_dir)
CallInputs  == NcFilesOf(<< DirName(1) >>)
                 \cup { << DirName(1), FrancePrefixed(NcName(1)) >> }
CallOutDirs == { << France, DirName(1) >>, << DirName(1) >>, << >> }
                 \cup CallInputs

InitFile ==
    /\ input_file \in CallInputs
    /\ output_dir \in CallOutDirs
    /\ \E present \in BOOLEAN :
         fsize = [p \in (IF present THEN {input_file} ELSE {}) |-> OrigSize]
    /\ fs_dirs = {<< >>, << DirName(1) >>}
    /\ mask_exists \in BOOLEAN
    /\ pc = "check"
    /\ bound = {}
    /\ opened = {}
    /\ err = "none"
    /\ raised = "none"
    /\ written = {}
    /\ everOpened = FALSE
    /\ IdleBatch
    /\ IdlePure

NextOfFile ==
    \/ process_netcdf_file
    \/ EnvRemove

SpecFile == InitFile /\ [][NextOfFile]_vars

-----------------------------------------------------------------------------
(* Properties of the batch and of a single call                            *)

\* C1: an integrity violation (the input file is gone after the output was
\* written) leaves the per-file boundary and stops the batch: the file on
\* which it was raised is the last one attempted, and the loop does not
\* resume after counting it as a failure.
C1_IntegrityStopsBatch ==
    \A f \in integrity :
        /\ attempted[Len(attempted)] = f
        /\ bpc = "call"

\* C2: when process_netcdf_file exits, by return or by exception, every
\* dataset handle it opened has been closed.
C2_HandlesClosedOnExit ==
    pc \in {"returned", "raised"} => opened = {}

\* C3: when the summary has been printed every enumerated file was attempted
\* exactly once and counted exactly once: succeeded + failed = total.
C3_CountedExactlyOnce ==
    bpc = "done" =>
        /\ printed # << >>
        /\ Len(attempted) = total_files
        /\ \A i, j \in 1..Len(attempted) : i # j => attempted[i] # attempted[j]
        /\ processed_files + failed_files = total_files

\* C6: whenever the output location collides with the input file, including
\* when output_dir is the path of the input file, a path-collision error is
\* raised before a dataset is opened, a directory created or a byte written.
C6_CollisionRejectedFirst ==
    ( /\ pc # "check"
      /\ (output_file = input_file \/ output_dir = input_file) )
    => /\ err = "PathCollision"
       /\ ~everOpened
       /\ written = {}
       /\ fs_dirs = {<< >>, << DirName(1) >>}

\* C10: the exception that leaves process_netcdf_file is the one first
\* raised inside its try body.
C10_OriginalErrorLeaves ==
    (pc = "raised" /\ raised # "none") => err = raised

-----------------------------------------------------------------------------
(* get_coordinates_info                                                    *)
(* Names are sequences of characters, so that str.lower() and the          *)
(* substring test `name in var.lower()` are computed.                      *)

UpperCase == << "A", "B", "C", "D", "E", "F", "G", "H", "I", "J", "K", "L", "M",
               "N", "O", "P", "Q", "R", "S", "T", "U", "V", "W", "X", "Y", "Z" >>
LowerCase == << "a", "b", "c", "d", "e", "f", "g", "h", "i", "j", "k", "l", "m",
               "n", "o", "p", "q", "r", "s", "t", "u", "v", "w", "x", "y", "z" >>

\* str.lower(), one character
LowerChar(c) ==
    IF \E i \in 1..Len(UpperCase) : UpperCase[i] = c
      THEN LowerCase[CHOOSE i \in 1..Len(UpperCase) : UpperCase[i] = c]
      ELSE c

\* str.lower()
Lower(s) == [i \in 1..Len(s) |-> LowerChar(s[i])]

\* sub in s
Contains(sub, s) ==
    \E i \in 1..(Len(s) - Len(sub) + 1) : SubSeq(s, i, i + Len(sub) - 1) = sub

n_lat          == << "l", "a", "t" >>
n_lon          == << "l", "o", "n" >>
n_latitude     == << "l", "a", "t", "i", "t", "u", "d", "e" >>
n_longitude    == << "l", "o", "n", "g", "i", "t", "u", "d", "e" >>
n_rlat         == << "r", "l", "a", "t" >>
n_rlon         == << "r", "l", "o", "n" >>
n_x            == << "x" >>
n_y            == << "y" >>
n_time         == << "t", "i", "m", "e" >>
n_rotated_pole == << "r", "o", "t", "a", "t", "e", "d", "_", "p", "o", "l", "e" >>

\* any(name in var.lower() for name in ['lat', 'latitude'])          line 36
HasLat(var) == Contains(n_lat, Lower(var)) \/ Contains(n_latitude, Lower(var))
\* any(name in var.lower() for name in ['lon', 'longitude'])         line 38
HasLon(var) == Contains(n_lon, Lower(var)) \/ Contains(n_longitude, Lower(var))

\* x in a sequence (ds.dims, ds.variables)
InSeq(x, s) == \E i \in 1..Len(s) : s[i] = x

VarNames(ds) == [i \in 1..Len(ds.vars) |-> ds.vars[i].name]

\* the loop of lines 34-39 if it kept the first match of each kind
RECURSIVE ScanLatLon_KeepFirst(_, _)
ScanLatLon_KeepFirst(ds, k) ==
    IF k = 0 THEN << << >>, << >> >>
    ELSE LET prev == ScanLatLon_KeepFirst(ds, k - 1)
             var  == ds.vars[k]
         IN  IF var.dims = << n_y, n_x >>
               THEN IF HasLat(var.name) /\ prev[1] = << >>
                      THEN << var.name, prev[2] >>
                    ELSE IF HasLon(var.name) /\ prev[2] = << >>
                      THEN << prev[1], var.name >>
                    ELSE prev
               ELSE prev

\* lines 30-39: the loop over ds.variables; << >> stands for None.  The
\* result is << lat_var, lon_var >> after the first k variables.
RECURSIVE ScanLatLon(_, _)
ScanLatLon(ds, k) ==
    IF k = 0 THEN << << >>, << >> >>
    ELSE LET prev == ScanLatLon(ds, k - 1)
             var  == ds.vars[k]
         IN  IF var.dims = << n_y, n_x >>
               THEN IF HasLat(var.name) THEN << var.name, prev[2] >>
                    ELSE IF HasLon(var.name) THEN << prev[1], var.name >>
                    ELSE prev
               ELSE prev

\* lines 51-52: [dim for dim in ds.dims if dim.lower() in [...]]
RECURSIVE Candidates(_, _)
Candidates(dims, names) ==
    IF dims = << >> THEN << >>
    ELSE IF Lower(Head(dims)) \in names
           THEN << Head(dims) >> \o Candidates(Tail(dims), names)
           ELSE Candidates(Tail(dims), names)

\* get_coordinates_info with the direct lat/lon rule tried before the
\* projected rule
get_coordinates_info_LatLonFirst(ds) ==
    LET found == ScanLatLon(ds, Len(ds.vars))
        lat_candidates == Candidates(ds.dims, {n_lat, n_latitude})
        lon_candidates == Candidates(ds.dims, {n_lon, n_longitude})
    IN  IF /\ InSeq(n_rotated_pole, VarNames(ds))
           /\ InSeq(n_rlat, ds.dims)
           /\ InSeq(n_rlon, ds.dims)
          THEN [type |-> "rotated_pole", lat_name |-> n_rlat, lon_name |-> n_rlon]
        ELSE IF lat_candidates # << >> /\ lon_candidates # << >>
          THEN [type |-> "latlon", lat_name |-> lat_candidates[1],
                lon_name |-> lon_candidates[1]]
        ELSE IF /\ InSeq(n_y, ds.dims) /\ InSeq(n_x, ds.dims)
                /\ found[1] # << >> /\ found[2] # << >>
          THEN [type |-> "projected", x_name |-> n_x, y_name |-> n_y,
                lat_var |-> found[1], lon_var |-> found[2]]
        ELSE [type |-> "ValueError", variables |-> VarNames(ds)]

\* lines 15-61
get_coordinates_info(ds) ==
    LET found == ScanLatLon(ds, Len(ds.vars))
        lat_candidates == Candidates(ds.dims, {n_lat, n_latitude})
        lon_candidates == Candidates(ds.dims, {n_lon, n_longitude})
    IN  IF /\ InSeq(n_rotated_pole, VarNames(ds))
           /\ InSeq(n_rlat, ds.dims)
           /\ InSeq(n_rlon, ds.dims)
          THEN [type |-> "rotated_pole", lat_name |-> n_rlat, lon_name |-> n_rlon]
        ELSE IF /\ InSeq(n_y, ds.dims) /\ InSeq(n_x, ds.dims)
                /\ found[1] # << >> /\ found[2] # << >>
          THEN [type |-> "projected", x_name |-> n_x, y_name |-> n_y,
                lat_var |-> found[1], lon_var |-> found[2]]
        ELSE IF lat_candidates # << >> /\ lon_candidates # << >>
          THEN [type |-> "latlon", lat_name |-> lat_candidates[1],
                lon_name |-> lon_candidates[1]]
        ELSE [type |-> "ValueError", variables |-> VarNames(ds)]


MaxLLDims == 3      \* latitude/longitude-like dimensions per dataset
MaxVars   == 3      \* two-dimensional variables per dataset

\* injective sequences of at most n elements of S
Arrangements(S, n) ==
    UNION { { q \in [1..k -> S] : \A i, j \in 1..k : i # j => q[i] # q[j] } :
              k \in 0..n }

GridDimChoices ==
    { << >>, << n_rlat, n_rlon >>, << n_y, n_x >>,
      << n_rlat, n_rlon, n_y, n_x >>, << n_time, n_x >> }

LLDimPool ==
    { n_lat, << "L", "A", "T" >>, n_lon,
      << "L", "o", "n", "g", "i", "t", "u", "d", "e" >>,
      << "n", "l", "a", "t" >> }

VarPool ==
    { [name |-> n_lat, dims |-> << n_y, n_x >>],
      [name |-> n_lon, dims |-> << n_y, n_x >>],
      [name |-> << "N", "A", "V", "_", "L", "O", "N" >>, dims |-> << n_y, n_x >>],
      [name |-> << "l", "o", "n", "l", "a", "t" >>, dims |-> << n_y, n_x >>],
      [name |-> << "l", "a", "t", "2" >>, dims |-> << n_x, n_y >>] }

RotatedPoleVar == [name |-> n_rotated_pole, dims |-> << >>]

\* variable sequences with pairwise distinct names
VarLists ==
    { q \in Arrangements(VarPool, MaxVars) :
        \A i, j \in 1..Len(q) : i # j => q[i].name # q[j].name }

InitClassify ==
    /\ \E g \in GridDimChoices, ll \in Arrangements(LLDimPool, MaxLLDims),
          vs \in VarLists, rp \in { << >>, << RotatedPoleVar >> } :
         cls_ds = [dims |-> g \o ll, vars |-> vs \o rp]
    /\ cls_out = [type |-> "pending"]
    /\ cls_done = FALSE
    /\ IdleCrop
    /\ IdleMask
    /\ IdleFs
    /\ IdleFile
    /\ IdleBatch

\* coords_info = get_coordinates_info(ds)
CallClassify ==
    /\ ~cls_done
    /\ cls_out' = get_coordinates_info(cls_ds)
    /\ cls_done' = TRUE
    /\ UNCHANGED <<cls_ds, cropVars, maskVars, fsVars, fileVars, batchVars>>

NextClassify == CallClassify

SpecClassify == InitClassify /\ [][NextClassify]_vars

-----------------------------------------------------------------------------
(* Properties of get_coordinates_info                                      *)

\* indices of the variables whose dimension tuple is exactly (y, x)
YX(ds) == { i \in 1..Len(ds.vars) : ds.vars[i].dims = << n_y, n_x >> }

LatVars(ds)     == { i \in YX(ds) : HasLat(ds.vars[i].name) }
LonVars(ds)     == { i \in YX(ds) : HasLon(ds.vars[i].name) }
LonOnlyVars(ds) == LonVars(ds) \ LatVars(ds)

LatDims(ds) == { i \in 1..Len(ds.dims) : Lower(ds.dims[i]) \in {n_lat, n_latitude} }
LonDims(ds) == { i \in 1..Len(ds.dims) : Lower(ds.dims[i]) \in {n_lon, n_longitude} }

Min(S) == CHOOSE m \in S : \A n \in S : m <= n
Max(S) == CHOOSE m \in S : \A n \in S : m >= n

Rule1(ds) ==
    /\ \E i \in 1..Len(ds.vars) : ds.vars[i].name = n_rotated_pole
    /\ \E i \in 1..Len(ds.dims) : ds.dims[i] = n_rlat
    /\ \E i \in 1..Len(ds.dims) : ds.dims[i] = n_rlon

HasYX(ds) ==
    /\ \E i \in 1..Len(ds.dims) : ds.dims[i] = n_y
    /\ \E i \in 1..Len(ds.dims) : ds.dims[i] = n_x

\* rule 2 as claimed: a latitude and a longitude variable, found independently
Rule2Claimed(ds) == HasYX(ds) /\ LatVars(ds) # {} /\ LonVars(ds) # {}

\* rule 2 as coded: the longitude variable must not also match 'lat'
Rule2Coded(ds) == HasYX(ds) /\ LatVars(ds) # {} /\ LonOnlyVars(ds) # {}

Rule3(ds) == LatDims(ds) # {} /\ LonDims(ds) # {}

FirstMatch(ds, rule2) ==
    IF Rule1(ds) THEN "rotated_pole"
    ELSE IF rule2 THEN "projected"
    ELSE IF Rule3(ds) THEN "latlon"
    ELSE "ValueError"

ClassifiedAs(ds, out, rule2) ==
    /\ out.type = FirstMatch(ds, rule2)
    /\ out.type = "rotated_pole" => out.lat_name = n_rlat /\ out.lon_name = n_rlon
    /\ out.type = "latlon" =>
          /\ out.lat_name = ds.dims[Min(LatDims(ds))]
          /\ out.lon_name = ds.dims[Min(LonDims(ds))]
    /\ out.type = "ValueError" =>
          out.variables = [i \in 1..Len(ds.vars) |-> ds.vars[i].name]

\* C4 as stated: the classification is that of the first rule that holds,
\* where the projected rule asks for a (y, x) variable whose name contains
\* 'lat' and a (y, x) variable whose name contains 'lon'; the error is
\* raised, with all variable names, exactly when no rule holds.
C4_FirstRuleWins_Claimed ==
    cls_done => ClassifiedAs(cls_ds, cls_out, Rule2Claimed(cls_ds))

\* C4 amended: the same, where the longitude variable of the projected
\* rule is a (y, x) variable whose name contains 'lon' and not 'lat'.
C4_FirstRuleWins ==
    cls_done => ClassifiedAs(cls_ds, cls_out, Rule2Coded(cls_ds))

\* a dataset that satisfies the projected and the latlon rule was classified
C4_Witness ==
    /\ cls_done
    /\ ~Rule1(cls_ds) /\ Rule2Coded(cls_ds) /\ Rule3(cls_ds)
    /\ cls_out.type = "projected"

\* C7 as stated: in the projected rule the latitude variable is the first
\* (y, x) variable whose lower-cased name contains 'lat', the longitude
\* variable the first whose lower-cased name contains 'lon', independently.
C7_FirstMatch_Claimed ==
    (cls_done /\ cls_out.type = "projected") =>
        /\ cls_out.lat_var = cls_ds.vars[Min(LatVars(cls_ds))].name
        /\ cls_out.lon_var = cls_ds.vars[Min(LonVars(cls_ds))].name

\* C7 amended: the latitude variable is the last (y, x) variable whose
\* lower-cased name contains 'lat'; the longitude variable is the last
\* (y, x) variable whose lower-cased name contains 'lon' and not 'lat'.
C7_LastMatch ==
    (cls_done /\ cls_out.type = "projected") =>
        /\ cls_out.lat_var = cls_ds.vars[Max(LatVars(cls_ds))].name
        /\ cls_out.lon_var = cls_ds.vars[Max(LonOnlyVars(cls_ds))].name

\* a projected dataset with two latitude candidates and a longitude one
C7_Witness ==
    /\ cls_done
    /\ cls_out.type = "projected"
    /\ Cardinality(LatVars(cls_ds)) >= 2
    /\ Cardinality(LonOnlyVars(cls_ds)) >= 1

-----------------------------------------------------------------------------
(* The latlon crop: ds.sel({lat_name: slice(41, 51.5),                     *)
(*                          lon_name: slice(-5, 10)})                      *)
(* Coordinates are counted in half degrees.  A coordinate axis is a        *)
(* strictly increasing or strictly decreasing sequence.                    *)

LatMin == 2 * 41
LatMax == 2 * 51 + 1
LonMin == -(2 * 5)
LonMax == 2 * 10

\* pandas Index.is_monotonic_increasing
IsMonotonicIncreasing(axis) ==
    \A i \in 1..(Len(axis) - 1) : axis[i] <= axis[i + 1]

CountOf(axis, P(_)) == Cardinality({ i \in 1..Len(axis) : P(axis[i]) })

\* pandas Index.get_slice_bound(label, side) on a monotonic index, as the
\* number of positions in front of the bound
SliceBound(axis, label, side) ==
    LET Below(v)   == v < label
        AtMost(v)  == v <= label
        Above(v)   == v > label
        AtLeast(v) == v >= label
    IN  IF IsMonotonicIncreasing(axis)
          THEN IF side = "left" THEN CountOf(axis, Below)
                                ELSE CountOf(axis, AtMost)
          ELSE IF side = "left" THEN CountOf(axis, Above)
                                ELSE CountOf(axis, AtLeast)

\* pandas Index.slice_indexer(start, stop): the positions of
\* axis[slice_locs(start, stop)], an empty range when the end bound does not
\* lie behind the start bound
SliceSel(axis, start, stop) ==
    (SliceBound(axis, start, "left") + 1)..SliceBound(axis, stop, "right")

\* lines 93-96
Crop(lat, lon) ==
    [lat |-> SliceSel(lat, LatMin, LatMax), lon |-> SliceSel(lon, LonMin, LonMax)]

MaxAxisLen == 3     \* points per coordinate axis

LatPool == { LatMin - 2, LatMin, LatMin + 8, LatMax, LatMax + 1 }
LonPool == { LonMin - 2, LonMin, 0, LonMax, LonMax + 2 }

Axes(pool) ==
    { a \in UNION { [1..k -> pool] : k \in 1..MaxAxisLen } :
        \/ \A i \in 1..(Len(a) - 1) : a[i] < a[i + 1]
        \/ \A i \in 1..(Len(a) - 1) : a[i] > a[i + 1] }

InitCrop ==
    /\ crop_lat \in Axes(LatPool)
    /\ crop_lon \in Axes(LonPool)
    /\ crop_out = [lat |-> {}, lon |-> {}]
    /\ crop_done = FALSE
    /\ IdleClassify
    /\ IdleMask
    /\ IdleFs
    /\ IdleFile
    /\ IdleBatch

CallCrop ==
    /\ ~crop_done
    /\ crop_out' = Crop(crop_lat, crop_lon)
    /\ crop_done' = TRUE
    /\ UNCHANGED <<crop_lat, crop_lon, clsVars, maskVars, fsVars, fileVars, batchVars>>

NextCrop == CallCrop

SpecCrop == InitCrop /\ [][NextCrop]_vars

\* C8: the crop keeps exactly the grid points with latitude in [41, 51.5]
\* and longitude in [-5, 10], bounds included, whether an axis is stored in
\* ascending or in descending order.
C8_ClosedBoxKept ==
    crop_done =>
        /\ crop_out.lat = { i \in 1..Len(crop_lat) :
                              LatMin <= crop_lat[i] /\ crop_lat[i] <= LatMax }
        /\ crop_out.lon = { i \in 1..Len(crop_lon) :
                              LonMin <= crop_lon[i] /\ crop_lon[i] <= LonMax }

-----------------------------------------------------------------------------
(* The masking loop (lines 126-142).  A numpy array is a shape and a       *)
(* function from index tuples to values; xarray's where() with a bare      *)
(* numpy condition broadcasts by position, with a DataArray by name.       *)

NaN == -1           \* the missing value where() fills in

n_nvertex == << "n", "v", "e", "r", "t", "e", "x" >>
n_bounds  == << "b", "o", "u", "n", "d", "s" >>

TimeLen == 2        \* size of the time dimension
NVertex == 2        \* size of the nvertex dimension

\* ds_masked[var].sizes[d]
SizeOf(ds, d) ==
    IF d = ds.grid[1] THEN ds.n1
    ELSE IF d = ds.grid[2] THEN ds.n2
    ELSE IF d = n_nvertex THEN NVertex
    ELSE TimeLen

ShapeOf(ds, dims) == [k \in 1..Len(dims) |-> SizeOf(ds, dims[k])]

RECURSIVE Indices(_)
Indices(shape) ==
    IF shape = << >> THEN { << >> }
    ELSE { << i >> \o r : i \in 1..Head(shape), r \in Indices(Tail(shape)) }

\* the value stored in a data variable at an index: distinct per index
RECURSIVE ValueAt(_)
ValueAt(idx) ==
    IF idx = << >> THEN 1
    ELSE 10 * ValueAt(SubSeq(idx, 1, Len(idx) - 1)) + idx[Len(idx)]

\* np.expand_dims(a, axis=-1)
ExpandDimsLast(a) ==
    [shape |-> Append(a.shape, 1),
     at    |-> [idx \in Indices(Append(a.shape, 1)) |->
                  a.at[SubSeq(idx, 1, Len(idx) - 1)]]]

\* np.expand_dims(a, axis=0)
ExpandDimsFirst(a) ==
    [shape |-> << 1 >> \o a.shape,
     at    |-> [idx \in Indices(<< 1 >> \o a.shape) |-> a.at[Tail(idx)]]]

\* np.repeat(a, n, axis=-1)
RepeatLast(a, n) ==
    LET r     == Len(a.shape)
        shape == [a.shape EXCEPT ![r] = @ * n]
    IN  [shape |-> shape,
         at    |-> [idx \in Indices(shape) |->
                      a.at[[idx EXCEPT ![r] = ((@ - 1) \div n) + 1]]]]

\* numpy broadcasting of two shapes, aligned on the last axis
Pad(shape, n) ==
    [k \in 1..n |-> IF k <= n - Len(shape) THEN 1 ELSE shape[k - (n - Len(shape))]]

MaxOf(a, b) == IF a >= b THEN a ELSE b

Broadcastable(sa, sb) ==
    LET n == MaxOf(Len(sa), Len(sb))
    IN  \A k \in 1..n :
          \/ Pad(sa, n)[k] = Pad(sb, n)[k]
          \/ Pad(sa, n)[k] = 1
          \/ Pad(sb, n)[k] = 1

BroadcastShape(sa, sb) ==
    LET n == MaxOf(Len(sa), Len(sb))
    IN  [k \in 1..n |-> MaxOf(Pad(sa, n)[k], Pad(sb, n)[k])]

\* the element of an array of the given shape that a broadcast index reads
Project(idx, shape) ==
    [k \in 1..Len(shape) |->
        IF shape[k] = 1 THEN 1 ELSE idx[k + Len(idx) - Len(shape)]]

\* DataArray.where(cond) with cond a numpy array: np.where broadcasts by
\* position, and xarray rejects a result whose shape is not the variable's
WherePositional(dims, shape, cond) ==
    IF Broadcastable(shape, cond.shape) /\ BroadcastShape(shape, cond.shape) = shape
      THEN [ok |-> TRUE, dims |-> dims,
            at |-> [idx \in Indices(shape) |->
                      IF cond.at[Project(idx, cond.shape)]
                        THEN ValueAt(idx) ELSE NaN]]
      ELSE [ok |-> FALSE, dims |-> dims, at |-> << >>]

PosOf(d, dims) == CHOOSE i \in 1..Len(dims) : dims[i] = d

\* DataArray.where(cond) with cond the DataArray mask_interp: broadcast by
\* dimension name; dimensions only the mask has are appended
WhereByName(ds, dims, mask) ==
    LET extra   == SelectSeq(ds.grid, LAMBDA d : ~InSeq(d, dims))
        outdims == dims \o extra
    IN  [ok |-> TRUE, dims |-> outdims,
         at |-> [idx \in Indices(ShapeOf(ds, outdims)) |->
                   IF mask.at[<< idx[PosOf(ds.grid[1], outdims)],
                                 idx[PosOf(ds.grid[2], outdims)] >>]
                     THEN ValueAt(SubSeq(idx, 1, Len(dims))) ELSE NaN]]

SpatialNames == { n_x, n_y, n_rlat, n_rlon }

\* lines 139-141: one leading axis per non-spatial dimension of the variable
RECURSIVE ExpandLeading(_, _)
ExpandLeading(a, k) ==
    IF k = 0 THEN a ELSE ExpandDimsFirst(ExpandLeading(a, k - 1))

\* lines 131-132 if the vertex axis were inserted in front
BoundsMask_VertexFirst(mask, nvertex) ==
    LET shape == << nvertex >> \o mask.shape
    IN  [shape |-> shape,
         at    |-> [idx \in Indices(shape) |-> mask.at[Tail(idx)]]]

\* lines 131-132
BoundsMask(mask, nvertex) == RepeatLast(ExpandDimsLast(mask), nvertex)

\* lines 129-142: the body of the loop for one variable
MaskVariable(ds, var, mask) ==
    IF Contains(n_bounds, var.name) /\ InSeq(n_nvertex, var.dims)
      THEN WherePositional(var.dims, ShapeOf(ds, var.dims),
                           BoundsMask(mask, SizeOf(ds, n_nvertex)))
    ELSE IF \E d \in SpatialNames : InSeq(d, var.dims)
      THEN LET others == SelectSeq(var.dims, LAMBDA d : d \notin SpatialNames)
           IN  IF others = << >>
                 THEN WhereByName(ds, var.dims, mask)
                 ELSE WherePositional(var.dims, ShapeOf(ds, var.dims),
                                      ExpandLeading(mask, Len(others)))
    ELSE [ok |-> TRUE, dims |-> var.dims,
          at |-> [idx \in Indices(ShapeOf(ds, var.dims)) |-> ValueAt(idx)]]

\* lines 126-142: the loop; an error in one variable leaves the function
MaskDataset(ds, mask) ==
    LET res == [k \in 1..Len(ds.vars) |-> MaskVariable(ds, ds.vars[k], mask)]
    IN  IF \A k \in 1..Len(ds.vars) : res[k].ok
          THEN [status |-> "ok",
                vars |-> [k \in 1..Len(ds.vars) |->
                            [name |-> ds.vars[k].name, dims |-> res[k].dims,
                             at |-> res[k].at]]]
          ELSE [status |-> "ValueError", vars |-> << >>]


MaxSide     == 2    \* points along each grid dimension after the crop
MaxDataVars == 2    \* data variables per dataset

Grids == { << n_lat, n_lon >>, << n_y, n_x >>, << n_rlat, n_rlon >> }

\* data variables over a grid (g1, g2): name and dimension tuple
DataVarPool(g) ==
    << [name |-> << "t", "e", "m", "p" >>, dims |-> << n_time, g[1], g[2] >>],
       [name |-> << "o", "r", "o", "g" >>, dims |-> << g[1], g[2] >>],
       [name |-> << "b", "o", "u", "n", "d", "s", "_", "l", "o", "n" >>,
        dims |-> << g[1], g[2], n_nvertex >>],
       [name |-> << "l", "a", "t", "_", "b", "o", "u", "n", "d", "s" >>,
        dims |-> << n_nvertex, g[1], g[2] >>],
       [name |-> << "c", "e", "l", "l", "_", "b", "o", "u", "n", "d", "s" >>,
        dims |-> << n_time, g[1], g[2], n_nvertex >>],
       [name |-> << "t", "i", "m", "e", "_", "b", "o", "u", "n", "d", "s" >>,
        dims |-> << n_time, n_nvertex >>],
       [name |-> << "B", "o", "u", "n", "d", "s", "_", "x" >>,
        dims |-> << g[1], g[2], n_nvertex >>],
       [name |-> << "f", "l", "u", "x" >>, dims |-> << g[1], g[2], n_time >>],
       [name |-> << "h", "e", "i", "g", "h", "t" >>, dims |-> << n_time >>] >>

\* at most MaxDataVars variables of the pool, in the order of the pool
DataVarLists(g) ==
    LET pool == DataVarPool(g)
        picks == UNION { { q \in [1..k -> 1..Len(pool)] :
                             \A i \in 1..(k - 1) : q[i] < q[i + 1] } :
                           k \in 0..MaxDataVars }
    IN  { [i \in 1..Len(q) |-> pool[q[i]]] : q \in picks }

InitMask ==
    /\ \E g \in Grids, a \in 1..MaxSide, b \in 1..MaxSide :
         /\ \E vs \in DataVarLists(g) :
              m_ds = [grid |-> g, n1 |-> a, n2 |-> b, vars |-> vs]
         /\ \E f \in [Indices(<< a, b >>) -> BOOLEAN] :
              m_mask = [shape |-> << a, b >>, at |-> f]
    /\ m_out = [status |-> "pending", vars |-> << >>]
    /\ m_done = FALSE
    /\ IdleClassify
    /\ IdleCrop
    /\ IdleFs
    /\ IdleFile
    /\ IdleBatch

\* lines 126-142
CallMask ==
    /\ ~m_done
    /\ m_out' = MaskDataset(m_ds, m_mask)
    /\ m_done' = TRUE
    /\ UNCHANGED <<m_ds, m_mask, clsVars, cropVars, fsVars, fileVars, batchVars>>

NextMask == CallMask

SpecMask == InitMask /\ [][NextMask]_vars

-----------------------------------------------------------------------------
(* Properties of the masking loop                                          *)

\* output variable k holds the sentinel exactly at the cells whose aligned
\* mask value is False and its input value elsewhere
MaskedByCell(k) ==
    LET var == m_ds.vars[k]
        out == m_out.vars[k]
    IN  /\ out.dims = var.dims
        /\ \A idx \in Indices(ShapeOf(m_ds, var.dims)) :
              out.at[idx] =
                 IF m_mask.at[<< idx[PosOf(m_ds.grid[1], var.dims)],
                                 idx[PosOf(m_ds.grid[2], var.dims)] >>]
                   THEN ValueAt(idx) ELSE NaN

OverGrid(var) == InSeq(m_ds.grid[1], var.dims) /\ InSeq(m_ds.grid[2], var.dims)

\* C5: in a latlon dataset every data variable over the latitude and the
\* longitude dimension is the sentinel where the aligned mask is False and
\* unchanged where it is True.
C5_LatLonVariablesMasked ==
    (m_done /\ m_out.status = "ok" /\ m_ds.grid = << n_lat, n_lon >>) =>
        \A k \in 1..Len(m_ds.vars) : OverGrid(m_ds.vars[k]) => MaskedByCell(k)

IsBoundsVar(var) == Contains(n_bounds, var.name) /\ InSeq(n_nvertex, var.dims)

\* C9 as stated: a variable whose name contains 'bounds' and whose
\* dimensions include nvertex holds, for each base cell, the sentinel at all
\* vertex positions when the aligned mask is False there and the original
\* values at all vertex positions when it is True.
C9_WholeVertexSets_Claimed ==
    (m_done /\ m_out.status = "ok") =>
        \A k \in 1..Len(m_ds.vars) :
            (IsBoundsVar(m_ds.vars[k]) /\ OverGrid(m_ds.vars[k])) => MaskedByCell(k)

\* the dimension tuple ends with the grid dimensions followed by nvertex
VertexTrailing(var) ==
    /\ Len(var.dims) >= 3
    /\ SubSeq(var.dims, Len(var.dims) - 2, Len(var.dims))
          = m_ds.grid \o << n_nvertex >>

\* C9 amended: the same for the variables whose dimension tuple ends with
\* the two dimensions of the aligned mask followed by nvertex.
C9_WholeVertexSets ==
    (m_done /\ m_out.status = "ok") =>
        \A k \in 1..Len(m_ds.vars) :
            (IsBoundsVar(m_ds.vars[k]) /\ VertexTrailing(m_ds.vars[k]))
               => MaskedByCell(k)

\* a bounds variable with a trailing vertex axis was masked over a grid
\* that has both an excluded and an included cell
C9_Witness ==
    /\ m_done
    /\ m_out.status = "ok"
    /\ \E k \in 1..Len(m_ds.vars) :
          IsBoundsVar(m_ds.vars[k]) /\ VertexTrailing(m_ds.vars[k])
    /\ \E c, d \in DOMAIN m_mask.at : m_mask.at[c] /\ ~m_mask.at[d]

====
